---- MODULE Spec2Model ----
(***************************************************************************)
(* Model of logic_obf.py: the bench netlist (Bench / LogicOp), key-gate    *)
(* insertion (Bench.insert_key_gates), fault ranking (Fault.get_faults),   *)
(* bench parsing (Bench.from_file), the Verilog port list                  *)
(* (VerilogModule.from_bench) and the key-size sweep (get_best_hamming,    *)
(* test_hamming, get_hope_faults) with the scratch files they leave.       *)
(*                                                                         *)
(* Python lists are sequences; list positions are kept 0-based where the   *)
(* source stores them (op_index, index_to_insert, i) and shifted by one    *)
(* only when a sequence is indexed.  Strings made of bits (key, test       *)
(* vectors) are sequences of the characters "0" and "1".                   *)
(***************************************************************************)
EXTENDS Integers, Sequences, FiniteSets, TLC

VARIABLES
    bench,      \* the Bench object of the main program (mutated in place)
    bench0,     \* the Bench as first built, before any insertion (never written again)
    testbench,  \* get_best_hamming: the deep copy under test
    fault,      \* the Fault object: atZeroFaults, atOneFaults
    hammings,   \* the dict hammings, as its items in insertion order
    sweep,      \* get_best_hamming: loop variable and result
    files,      \* the scratch files that exist in the working directory
    text,       \* from_file: what the regular expressions find in the netlist text
    vmod,       \* the VerilogModule built by from_bench
    report,     \* get_faults: the fault report and the loop over its lines
    pc,         \* position of the program
    call,       \* frame of the running insert_key_gates call
    pre,        \* the Bench that call received, as it was at call entry
    last,       \* what the last loop iteration of insert_key_gates did
    stderr,     \* messages printed by error()
    raised      \* the exception that ended the program, "none" while it runs

vars == <<bench, bench0, testbench, fault, hammings, sweep, files, text, vmod, report,
          pc, call, pre, last, stderr, raised>>

----------------------------------------------------------------------------
(* Bounds of the model *)

\* largest num_keybits, and longest candidate list, of one insert_key_gates call
MaxKeyBits == 2

----------------------------------------------------------------------------
(* Python list helpers *)

Range(seq) == { seq[k] : k \in 1..Len(seq) }

\* x in seq
Contains(seq, x) == \E k \in 1..Len(seq) : seq[k] = x

\* seq.index(x), 0-based; only used where x is in seq
ListIndex(seq, x) ==
    (CHOOSE k \in 1..Len(seq) : seq[k] = x /\ \A j \in 1..(k-1) : seq[j] # x) - 1

\* seq.insert(idx, x) for 0 <= idx <= len(seq)
ListInsert(seq, idx, x) ==
    SubSeq(seq, 1, idx) \o <<x>> \o SubSeq(seq, idx + 1, Len(seq))

\* all sequences over S of length at most n
SeqsUpTo(S, n) == UNION { [1..k -> S] : k \in 0..n }

----------------------------------------------------------------------------
(* LogicOp *)

\* LogicOp.bench_to_op: __to_op_dict[op.upper()], for the kinds as the
\* texts of the model write them
bench_to_op(op) ==
    CASE op = "AND"  -> 0
      [] op = "OR"   -> 1
      [] op = "NOT"  -> 2
      [] op = "NOR"  -> 3
      [] op = "NAND" -> 4
      [] op = "DFF"  -> 5
      [] op = "BUF"  -> 6
      [] op = "XOR"  -> 7
      [] op = "XNOR" -> 8
      [] op = "not"  -> 2

\* LogicOp.__init__
LogicOp(assignee, operation, operands) ==
    [assignee |-> assignee, operation |-> bench_to_op(operation), operands |-> operands]

\* Bench.__init__
Bench(inputs, outputs, signals, ops, includes_dff) ==
    [inputs |-> inputs, outputs |-> outputs, signals |-> signals, ops |-> ops,
     includes_dff |-> includes_dff, changed_signals |-> <<>>, key |-> <<>>]

----------------------------------------------------------------------------
(* Bench.from_file *)

\* the loop over op_full_match (lines 183-191): the ops built so far and the
\* value includes_dff holds after each pass of the loop ("unbound" before the
\* first pass: the name is only assigned inside the loop)
RECURSIVE ParseOps(_, _, _, _)
ParseOps(op_full_match, k, ops, includes_dff) ==
    IF k > Len(op_full_match) THEN [ops |-> ops, includes_dff |-> includes_dff]
    ELSE LET op_reg == op_full_match[k]
             new_op == LogicOp(op_reg[1], op_reg[2], op_reg[3])
         IN  ParseOps(op_full_match, k + 1, Append(ops, new_op),
                      IF new_op.operation = 5 THEN "True" ELSE "False")

\* signals = [ tup[0] for tup in op_full_match if tup[0] not in outputs ]
RECURSIVE ParseSignals(_, _, _)
ParseSignals(op_full_match, outputs, k) ==
    IF k > Len(op_full_match) THEN <<>>
    ELSE (IF Contains(outputs, op_full_match[k][1]) THEN <<>> ELSE <<op_full_match[k][1]>>)
         \o ParseSignals(op_full_match, outputs, k + 1)

\* from_file on a text whose INPUT lines, OUTPUT lines and assignment lines
\* are inputs, outputs, op_full_match (what the three findall calls return,
\* operands already stripped of blanks and split at the commas).
\* Gives the Bench, or raises UnboundLocalError when there is no assignment
\* line (includes_dff is read at line 193 without ever being assigned).
from_file(inputs, outputs, op_full_match) ==
    LET p == ParseOps(op_full_match, 1, <<>>, "unbound")
    IN  [raised |-> IF p.includes_dff = "unbound" THEN "UnboundLocalError" ELSE "none",
         bench  |-> Bench(inputs, outputs, ParseSignals(op_full_match, outputs, 1),
                          p.ops, p.includes_dff = "True")]

----------------------------------------------------------------------------
(* Bench.insert_key_gates *)

\* mutant of KeyBit: the stuck-at-1 branch records the opposite bit
KeyBitOppositeAtOne(stuck_at, new_gate_op) ==
    IF stuck_at = 0 THEN (IF new_gate_op = "XOR" THEN <<"0">> ELSE <<"1">>)
    ELSE IF stuck_at = 1 THEN (IF new_gate_op = "XOR" THEN <<"1">> ELSE <<"0">>)
    ELSE <<>>

\* lines 234-243: the characters appended to key for the chosen gate
KeyBit(stuck_at, new_gate_op) ==
    IF stuck_at = 0 THEN (IF new_gate_op = "XOR" THEN <<"0">> ELSE <<"1">>)
    ELSE IF stuck_at = 1 THEN (IF new_gate_op = "XOR" THEN <<"0">> ELSE <<"1">>)
    ELSE <<>>

\* lines 253-258, Case 1 (G37gat->G38gat): the loop from op_index on.
\* operands.index raises ValueError when wire[0] is not an operand of the op
\* assigned to wire[1]; the operations changed before that stay changed.
RECURSIVE EdgeLoop(_, _, _, _, _)
EdgeLoop(ops, wire, new_signal, op_index, index_to_insert) ==
    IF op_index >= Len(ops)
    THEN [ops |-> ops, index_to_insert |-> index_to_insert, raised |-> "none"]
    ELSE LET op == ops[op_index + 1] IN
         IF op.assignee = wire[2]
         THEN IF ~Contains(op.operands, wire[1])
              THEN [ops |-> ops, index_to_insert |-> index_to_insert,
                    raised |-> "ValueError"]
              ELSE LET index == ListIndex(op.operands, wire[1]) IN
                   EdgeLoop([ops EXCEPT ![op_index + 1].operands[index + 1] = new_signal],
                            wire, new_signal, op_index + 1,
                            IF index_to_insert = -1 THEN op_index ELSE index_to_insert)
         ELSE EdgeLoop(ops, wire, new_signal, op_index + 1, index_to_insert)

\* lines 262-268, Case 2 (G38gat): the loop from op_index on
RECURSIVE BareLoop(_, _, _, _, _, _)
BareLoop(ops, changed_signals, wire, new_signal, op_index, index_to_insert) ==
    IF op_index >= Len(ops)
    THEN [ops |-> ops, changed_signals |-> changed_signals,
          index_to_insert |-> index_to_insert]
    ELSE LET op == ops[op_index + 1] IN
         IF Contains(op.operands, wire[1])
         THEN LET index == ListIndex(op.operands, wire[1]) IN
              BareLoop([ops EXCEPT ![op_index + 1].operands[index + 1] = new_signal],
                       Append(changed_signals, wire[1]), wire, new_signal, op_index + 1,
                       IF index_to_insert = -1 THEN op_index ELSE index_to_insert)
         ELSE BareLoop(ops, changed_signals, wire, new_signal, op_index + 1,
                       index_to_insert)

\* mutant of PlaceNewOp: the new gate goes after the first rewritten operation
PlaceNewOpAfter(ops, index_to_insert, new_op) ==
    IF index_to_insert # -1 THEN ListInsert(ops, index_to_insert + 1, new_op) ELSE ops

\* lines 269-270
PlaceNewOp(ops, index_to_insert, new_op) ==
    IF index_to_insert # -1 THEN ListInsert(ops, index_to_insert, new_op) ELSE ops

\* line 224: name.split("->", 1), for the wire names of the model
SplitWire(name) ==
    CASE name = "I0->O"  -> <<"I0", "O">>
      [] name = "I0->G0" -> <<"I0", "G0">>
      [] name = "I1->G0" -> <<"I1", "G0">>
      [] name = "G0->O"  -> <<"G0", "O">>
      [] name = "G0->P"  -> <<"G0", "P">>
      [] name = "O->P"   -> <<"O", "P">>
      [] name = "I2->O"  -> <<"I2", "O">>
      [] OTHER -> <<name>>

\* lines 224-270: one pass of the for loop on Bench b, for the candidate
\* name and the value rnd of random.randrange(2).
\* Gives the Bench afterwards, the exception raised ("none" if none) and what
\* the pass did.
InsertIteration(b, name, stuck_at, rnd) ==
    LET wire        == SplitWire(name)
        key_input   == "K" \o ToString(Len(b.key)) \o "gat"
        new_signal  == "GA" \o ToString(Len(b.signals)) \o "gat"
        new_gate_op == IF rnd = 1 THEN "XOR" ELSE "XNOR"
        new_op      == LogicOp(new_signal, new_gate_op, <<wire[1], key_input>>)
        case1       == Len(wire) >= 2 /\ ~Contains(b.changed_signals, wire[1])
        e           == EdgeLoop(b.ops, wire, new_signal, 0, -1)
        c           == BareLoop(b.ops, b.changed_signals, wire, new_signal, 0, -1)
        exc         == IF case1 THEN e.raised ELSE "none"
        idx         == IF case1 THEN e.index_to_insert ELSE c.index_to_insert
        ops1        == IF case1 THEN e.ops ELSE c.ops
    IN  [bench  |-> [b EXCEPT !.inputs = Append(@, key_input),
                              !.signals = Append(@, new_signal),
                              !.key = @ \o KeyBit(stuck_at, new_gate_op),
                              !.changed_signals =
                                  IF case1 THEN @ ELSE c.changed_signals,
                              !.ops = IF exc = "none"
                                      THEN PlaceNewOp(ops1, idx, new_op) ELSE ops1],
         raised |-> exc,
         did    |-> [path |-> IF case1 THEN "edge" ELSE "bare", wire |-> wire,
                     new_signal |-> new_signal, key_input |-> key_input,
                     index_to_insert |-> idx, ops_before |-> b.ops]]

----------------------------------------------------------------------------
(* Simulation of a bench netlist on one test vector, as the fault simulator  *)
(* does for test_hamming: the vector gives the INPUT lines their values in   *)
(* declaration order, the gates are evaluated in the order of the file.      *)
(* -1 is the value of a name that has none yet.                              *)

Bit(ch) == IF ch = "1" THEN 1 ELSE 0

RECURSIVE SumSeq(_)
SumSeq(vals) == IF vals = <<>> THEN 0 ELSE Head(vals) + SumSeq(Tail(vals))

GateValue(operation, vals) ==
    IF vals = <<>> \/ \E k \in 1..Len(vals) : vals[k] = -1 THEN -1
    ELSE CASE operation = 0 -> IF SumSeq(vals) = Len(vals) THEN 1 ELSE 0
           [] operation = 1 -> IF SumSeq(vals) > 0 THEN 1 ELSE 0
           [] operation = 2 -> 1 - vals[1]
           [] operation = 3 -> IF SumSeq(vals) > 0 THEN 0 ELSE 1
           [] operation = 4 -> IF SumSeq(vals) = Len(vals) THEN 0 ELSE 1
           [] operation = 6 -> vals[1]
           [] operation = 7 -> SumSeq(vals) % 2
           [] operation = 8 -> 1 - (SumSeq(vals) % 2)
           [] OTHER -> -1

Lookup(env, name) == IF name \in DOMAIN env THEN env[name] ELSE -1

RECURSIVE EvalOps(_, _, _)
EvalOps(ops, k, env) ==
    IF k > Len(ops) THEN env
    ELSE LET op == ops[k]
             v  == GateValue(op.operation,
                             [j \in 1..Len(op.operands) |-> Lookup(env, op.operands[j])])
         IN  EvalOps(ops, k + 1, (op.assignee :> v) @@ env)

\* the values of the OUTPUT lines of Bench b on test vector vec
Simulate(b, vec) ==
    LET env0 == [n \in Range(b.inputs) |-> Bit(vec[ListIndex(b.inputs, n) + 1])]
        env  == EvalOps(b.ops, 1, env0)
    IN  [k \in 1..Len(b.outputs) |-> Lookup(env, b.outputs[k])]

\* test_hamming, line 386: vector 1 is inputString + correctKey, where
\* inputString has len(inputs) - len(key) characters (line 424)
CorrectKeyVector(b, inputString) == inputString \o b.key

----------------------------------------------------------------------------
(* Netlists and fault-report wires the model starts from *)

\* netlist texts without DFF, each in topological order, and for each the
\* wire references its fault report names: bare wires, branches A->B, and
\* the key "0" the two dicts of get_faults start with (line 107)
Netlists ==
    { \* the AND of two inputs
      [inputs |-> <<"I0", "I1">>, outputs |-> <<"O">>,
       ops |-> << <<"O", "AND", <<"I0", "I1">> >> >>,
       wires |-> { "I0", "I0->O", "0" }],
      \* an inverter written as a NAND of one wire with itself
      [inputs |-> <<"I0", "I1">>, outputs |-> <<"O">>,
       ops |-> << <<"G0", "NAND", <<"I0", "I0">> >>,
                  <<"O", "OR", <<"G0", "I1">> >> >>,
       wires |-> { "I0", "I0->G0", "G0->O" }],
      \* a wire with two consumers, and an output that feeds a gate
      [inputs |-> <<"I0", "I1">>, outputs |-> <<"O", "P">>,
       ops |-> << <<"G0", "NOT", <<"I0">> >>,
                  <<"O", "NOR", <<"G0", "I1">> >>,
                  <<"P", "XOR", <<"G0", "O">> >> >>,
       wires |-> { "G0", "G0->P", "O->P" }],
      \* a buffered input
      [inputs |-> <<"I0", "I1">>, outputs |-> <<"O">>,
       ops |-> << <<"G0", "BUF", <<"I1">> >>,
                  <<"O", "XNOR", <<"I0", "G0">> >> >>,
       wires |-> { "G0", "I1->G0", "I0->O" }] }

NoCall == [obj |-> "none", wires |-> <<>>, num_keybits |-> 0, stuck_at |-> 0, i |-> 0,
           ret |-> "none"]
NoLast == [path |-> "none", wire |-> <<>>, new_signal |-> "", key_input |-> "",
           index_to_insert |-> -1, ops_before |-> <<>>]
NoBench == Bench(<<>>, <<>>, <<>>, <<>>, FALSE)
NoSweep == [next |-> 0, num_keybits |-> 0, out_bench |-> "unbound",
            sorted_hammings |-> <<>>, returned |-> FALSE]

----------------------------------------------------------------------------
(* The two insertion passes of the main program, lines 464-465, for any     *)
(* fault lists over the wires of the report and any number of key bits       *)
(* sorted_hammings[0].                                                        *)

Init ==
    /\ \E t \in Netlists :
         /\ bench = from_file(t.inputs, t.outputs, t.ops).bench
         /\ report = t.wires
    /\ bench0 = bench
    /\ testbench = NoBench
    /\ fault = <<>>
    /\ hammings = <<>>
    /\ \E n \in 0..MaxKeyBits : sweep = [NoSweep EXCEPT !.sorted_hammings = <<n>>]
    /\ files = {}
    /\ text = <<>>
    /\ vmod = <<>>
    /\ pc = "pass0"
    /\ call = NoCall
    /\ pre = bench
    /\ last = NoLast
    /\ stderr = <<>>
    /\ raised = "none"

\* lines 216-218: entry of insert_key_gates(wires, num_keybits, stuck_at) on
\* the Bench b held by obj; ret is where the caller goes on afterwards
Enter(obj, b, wires, num_keybits, stuck_at, ret) ==
    /\ call' = [obj |-> obj, wires |-> wires, num_keybits |-> num_keybits,
                stuck_at |-> stuck_at, i |-> 0, ret |-> ret]
    /\ pre' = b
    /\ last' = NoLast
    /\ stderr' = IF Len(wires) < num_keybits
                 THEN Append(stderr, "Invalid number of key bits") ELSE stderr
    /\ pc' = "insert_key_gates"

\* line 464 / line 465 with any list of report wires as the fault list
InsertCall ==
    /\ pc \in {"pass0", "pass1"}
    /\ \E wires \in SeqsUpTo(report, MaxKeyBits) :
           Enter("bench", bench, wires, sweep.sorted_hammings[1],
                 IF pc = "pass0" THEN 0 ELSE 1,
                 IF pc = "pass0" THEN "pass1" ELSE "done")
    /\ UNCHANGED <<bench, bench0, testbench, fault, hammings, sweep, files, text, vmod,
                   report, raised>>

\* lines 221-270: one pass of the for loop of the running call on Bench b;
\* wires[i] raises IndexError when i is past the end of wires
Iterate(b, rnd) ==
    IF call.i >= Len(call.wires)
    THEN [bench |-> b, raised |-> "IndexError", did |-> NoLast]
    ELSE InsertIteration(b, call.wires[call.i + 1], call.stuck_at, rnd)

InsertLoop ==
    /\ pc = "insert_key_gates"
    /\ call.i < call.num_keybits
    /\ \E rnd \in {0, 1} :
         LET r == Iterate(IF call.obj = "bench" THEN bench ELSE testbench, rnd) IN
         /\ bench' = IF call.obj = "bench" THEN r.bench ELSE bench
         /\ testbench' = IF call.obj = "bench" THEN testbench ELSE r.bench
         /\ last' = r.did
         /\ raised' = r.raised
         /\ pc' = IF r.raised = "none" THEN pc ELSE "raised"
         /\ call' = IF r.raised = "none" THEN [call EXCEPT !.i = @ + 1] ELSE call
    /\ UNCHANGED <<bench0, fault, hammings, sweep, files, text, vmod, report,
                   pre, stderr>>

\* the for loop is over: insert_key_gates returns
InsertReturn ==
    /\ pc = "insert_key_gates"
    /\ call.i >= call.num_keybits
    /\ pc' = call.ret
    /\ call' = NoCall
    /\ last' = NoLast
    /\ UNCHANGED <<bench, bench0, testbench, fault, hammings, sweep, files, text, vmod,
                   report, pre, stderr, raised>>

Next == InsertCall \/ InsertLoop \/ InsertReturn

Spec == Init /\ [][Next]_vars

----------------------------------------------------------------------------
(* Properties of the insertion passes *)

\* the positions of the key gates in the operations of b: the operations
\* whose assignee the unlocked netlist does not assign
KeyGates(b) ==
    { k \in 1..Len(b.ops) :
        \A j \in 1..Len(bench0.ops) : bench0.ops[j].assignee # b.ops[k].assignee }

\* every operand is a primary input or assigned by an earlier operation
Ordered(b) ==
    \A k \in 1..Len(b.ops) : \A j \in 1..Len(b.ops[k].operands) :
        \/ Contains(b.inputs, b.ops[k].operands[j])
        \/ \E h \in 1..(k - 1) : b.ops[h].assignee = b.ops[k].operands[j]

\* the primary-input assignments of b, as the strings test_hamming builds
InputStrings(b) == [1..(Len(b.inputs) - Len(b.key)) -> {"0", "1"}]

\* C1: at every point of the two passes (also after a pass has raised), the
\* netlist simulated with the key inputs set to the recorded key gives, for
\* every assignment of the primary inputs, the outputs of the unlocked
\* netlist, each of them a defined bit.
C1_CorrectKeyReproducesOutputs ==
    \A inputString \in InputStrings(bench) :
        LET unlocked == Simulate(bench0, inputString) IN
        /\ Simulate(bench, CorrectKeyVector(bench, inputString)) = unlocked
        /\ \A k \in 1..Len(bench0.outputs) : unlocked[k] \in {0, 1}

\* both passes are over, and the netlist holds an XOR and an XNOR key gate,
\* one placed by the edge path and one by the bare-wire path
C1_Witness ==
    /\ pc = "done"
    /\ \E k \in KeyGates(bench) : bench.ops[k].operation = 7
    /\ \E k \in KeyGates(bench) : bench.ops[k].operation = 8
    /\ Len(bench.changed_signals) > 0
    /\ Cardinality(KeyGates(bench)) >= 3

\* C10: the operations stay in topological order through both passes, and
\* a pass of the loop that rewrote an operand has put the new gate right
\* before the first operation it rewrote: the operations before it are
\* untouched and the one after it is a rewritten one.
C10_OrderPreserved ==
    /\ Ordered(bench)
    /\ (last.path # "none" /\ last.index_to_insert # -1 /\ raised = "none") =>
          LET idx == last.index_to_insert IN
          /\ Len(bench.ops) = Len(last.ops_before) + 1
          /\ bench.ops[idx + 1].assignee = last.new_signal
          /\ \A j \in 1..idx : bench.ops[j] = last.ops_before[j]
          /\ bench.ops[idx + 2].assignee = last.ops_before[idx + 1].assignee
          /\ bench.ops[idx + 2].operands # last.ops_before[idx + 1].operands

\* a candidate named in both passes: the second pass has just placed a gate
\* in front of the key gate the first pass made for the same wire
C10_Witness ==
    /\ pc = "insert_key_gates"
    /\ call.stuck_at = 1
    /\ last.path = "bare"
    /\ last.index_to_insert # -1
    /\ bench.ops[last.index_to_insert + 2].assignee = "GA0gat"
    /\ Contains(bench.ops[last.index_to_insert + 2].operands, last.new_signal)

\* the operation of b assigned to name (only used where there is one)
OpOf(ops, name) == ops[CHOOSE k \in 1..Len(ops) : ops[k].assignee = name]

\* C2: a call with fewer candidates than key bits changes nothing at all:
\* from its entry on the Bench is the Bench it received and no pass of the
\* loop has run.
C2_InsufficientCandidatesChangesNothing ==
    (call.obj # "none" /\ Len(call.wires) < call.num_keybits) =>
        /\ bench = pre
        /\ last.path = "none"

\* C3: the key has one bit per key gate present in the operations; a call
\* that dropped no gate has grown the key by num_keybits when its loop ends;
\* a pass of the loop that found no consumer has added no key bit.
C3_KeyLengthIsNumberOfKeyGates ==
    raised = "none" =>
        /\ Len(bench.key) = Cardinality(KeyGates(bench))
        /\ (/\ call.obj # "none"
            /\ call.i = call.num_keybits
            /\ Cardinality(KeyGates(bench)) = Cardinality(KeyGates(pre)) + call.num_keybits)
           => Len(bench.key) = Len(pre.key) + call.num_keybits
        /\ (last.path # "none" /\ last.index_to_insert = -1)
           => last.key_input = "K" \o ToString(Len(bench.key)) \o "gat"

\* C8: a pass of the loop that took the edge path for A->B has marked A as
\* rewired, and no pass raises because its candidate was rewired before.
C8_EdgePathMarksProducer ==
    /\ (last.path = "edge" /\ last.index_to_insert # -1 /\ raised = "none")
          => Contains(bench.changed_signals, last.wire[1])
    /\ raised # "ValueError"

\* C9: after a pass of the loop for a bare wire A, no operation but the new
\* key gate has A among its operands; after a pass that took the edge path
\* for A->B, the operands of B differ from before only where they held A,
\* at one place at least, and every other operation is as it was.
C9_BlastRadius ==
    (last.path # "none" /\ last.index_to_insert # -1 /\ raised = "none") =>
        /\ (last.path = "bare" /\ Len(last.wire) = 1) =>
              \A k \in 1..Len(bench.ops) :
                  bench.ops[k].assignee # last.new_signal
                      => ~Contains(bench.ops[k].operands, last.wire[1])
        /\ last.path = "edge" =>
              \A k \in 1..Len(last.ops_before) :
                  LET before == last.ops_before[k]
                      after  == OpOf(bench.ops, before.assignee)
                  IN  IF before.assignee = last.wire[2]
                      THEN /\ Len(after.operands) = Len(before.operands)
                           /\ after.operands # before.operands
                           /\ \A j \in 1..Len(before.operands) :
                                 \/ after.operands[j] = before.operands[j]
                                 \/ /\ before.operands[j] = last.wire[1]
                                    /\ after.operands[j] = last.new_signal
                      ELSE after = before

----------------------------------------------------------------------------
(* Fault.get_faults and get_hope_faults *)

\* a dict is the sequence of its items <<key, value>> in insertion order
DictHas(d, key) == \E k \in 1..Len(d) : d[k][1] = key
DictVal(d, key) == d[CHOOSE k \in 1..Len(d) : d[k][1] = key][2]

\* d[key] = value: an old key keeps its place, a new key goes last
DictSet(d, key, value) ==
    IF DictHas(d, key)
    THEN [k \in 1..Len(d) |-> IF d[k][1] = key THEN <<key, value>> ELSE d[k]]
    ELSE Append(d, <<key, value>>)

\* lines 126-129 (and 131-134): d.get(key) is None, or 0, for "no count yet"
CountFault(d, key) ==
    IF DictHas(d, key) /\ DictVal(d, key) # 0
    THEN DictSet(d, key, DictVal(d, key) + 1)
    ELSE DictSet(d, key, 1)

\* lines 111-134: the loop over faultLines from line k on.  A line is the
\* list of its words (line.split()); the empty list is the empty line.
RECURSIVE FaultLoop(_, _, _, _, _)
FaultLoop(outputs, faultLines, k, atZeroFaults, atOneFaults) ==
    IF k > Len(faultLines) THEN <<atZeroFaults, atOneFaults>>
    ELSE LET splitLine == faultLines[k] IN
         IF splitLine = <<>> THEN <<atZeroFaults, atOneFaults>>
         ELSE IF splitLine[1] = "test"
         THEN FaultLoop(outputs, faultLines, k + 1, atZeroFaults, atOneFaults)
         ELSE IF Contains(outputs, splitLine[1])
         THEN FaultLoop(outputs, faultLines, k + 1, atZeroFaults, atOneFaults)
         ELSE IF splitLine[3] = "*" /\ splitLine[2] = "/0:"
         THEN FaultLoop(outputs, faultLines, k + 1,
                        CountFault(atZeroFaults, splitLine[1]), atOneFaults)
         ELSE IF splitLine[3] = "*" /\ splitLine[2] = "/1:"
         THEN FaultLoop(outputs, faultLines, k + 1,
                        atZeroFaults, CountFault(atOneFaults, splitLine[1]))
         ELSE FaultLoop(outputs, faultLines, k + 1, atZeroFaults, atOneFaults)

\* sorted(items, key=value, reverse=True): stable, greatest value first.
\* The items are taken in order; each goes behind the sorted items whose
\* value is at least its own.
RECURSIVE SortedByValueDesc(_, _)
SortedByValueDesc(items, done) ==
    IF items = <<>> THEN done
    ELSE LET item == Head(items)
             p == Cardinality({ k \in 1..Len(done) : done[k][2] >= item[2] })
         IN  SortedByValueDesc(Tail(items), ListInsert(done, p, item))

\* lines 141-147: the keys of the sorted dict
DictKeys(d) == [k \in 1..Len(d) |-> d[k][1]]

\* Fault.get_faults, lines 105-149, on the text get_hope_faults returned.
get_faults(b, faultLines) ==
    LET counted == FaultLoop(b.outputs, faultLines, 1, << <<"0", -1>> >>, << <<"0", -1>> >>)
    IN  [atZeroFaults |-> DictKeys(SortedByValueDesc(counted[1], <<>>)),
         atOneFaults  |-> DictKeys(SortedByValueDesc(counted[2], <<>>))]

\* get_hope_faults, lines 348-365, after the fault simulator has run:
\* hope_stderr says whether it wrote to stderr, and fs holds the files it
\* left.  Gives the files afterwards, what error() printed, the text
\* returned and whether the program exited.
get_hope_faults(fs, hope_stderr, faults_text) ==
    LET warned == hope_stderr /\ "hope.warning" \in fs
        fs1    == IF warned THEN fs \ {"hope.warning"} ELSE fs
        read   == IF "faults" \in fs1 THEN faults_text ELSE <<>>
        printed == (IF hope_stderr THEN <<"hope stderr">> ELSE <<>>)
                   \o (IF warned THEN <<"hope.warning">> ELSE <<>>)
    IN  [files  |-> fs1 \ {"faults"},
         stderr |-> IF read # <<>> THEN printed
                    ELSE Append(printed, "Hope found no faults."),
         faults |-> read,
         exit   |-> read = <<>>]

----------------------------------------------------------------------------
(* Fault ranking, line 455: the fault simulator runs on the netlist and    *)
(* get_faults ranks what it reports.                                        *)

\* longest fault report
MaxLines == 3

\* the lines a fault report of the netlist G0 = NAND(I0, I0), O = OR(G0, I1)
\* is made of: a header line, the empty line, and fault lines for two wires
\* and the primary output, detected ("x") or undetected ("*")
ReportLines ==
    { <<"test", "1:", "01">>, <<>> }
    \cup { <<w, p, m>> : w \in {"I0", "G0", "O"}, p \in {"/0:", "/1:"}, m \in {"*", "x"} }

RankedBench ==
    from_file(<<"I0", "I1">>, <<"O">>,
              << <<"G0", "NAND", <<"I0", "I0">> >>, <<"O", "OR", <<"G0", "I1">> >> >>).bench

InitRank ==
    /\ bench = RankedBench
    /\ bench0 = bench
    /\ testbench = NoBench
    /\ fault = [atZeroFaults |-> <<>>, atOneFaults |-> <<>>]
    /\ hammings = <<>>
    /\ sweep = NoSweep
    /\ files = {}
    /\ text = <<>>
    /\ vmod = <<>>
    /\ report = <<>>
    /\ pc = "get_hope_faults"
    /\ call = NoCall
    /\ pre = bench
    /\ last = NoLast
    /\ stderr = <<>>
    /\ raised = "none"

\* line 104: get_hope_faults(netlist); the simulator may write to stderr,
\* leave hope.warning, and leave a faults file with any text (or none)
GetHopeFaults ==
    /\ pc = "get_hope_faults"
    /\ \E hope_stderr \in BOOLEAN, left \in SUBSET {"hope.warning", "faults"},
          faults_text \in SeqsUpTo(ReportLines, MaxLines) :
         LET r == get_hope_faults(files \cup left, hope_stderr, faults_text) IN
         /\ "faults" \notin left => faults_text = <<>>
         /\ files' = r.files
         /\ stderr' = stderr \o r.stderr
         /\ report' = r.faults
         /\ pc' = IF r.exit THEN "exit" ELSE "get_faults"
    /\ UNCHANGED <<bench, bench0, testbench, fault, hammings, sweep, text, vmod,
                   call, pre, last, raised>>

\* lines 105-149: the ranking
GetFaults ==
    /\ pc = "get_faults"
    /\ fault' = get_faults(bench, report)
    /\ pc' = "ranked"
    /\ UNCHANGED <<bench, bench0, testbench, hammings, sweep, files, text, vmod, report,
                   call, pre, last, stderr, raised>>

NextRank == GetHopeFaults \/ GetFaults

SpecRank == InitRank /\ [][NextRank]_vars

\* the lines of the report, up to its first empty line, that count for
\* polarity p: an undetected fault of a wire that is no primary output
CountedLines(p) ==
    { k \in 1..Len(report) :
        /\ \A j \in 1..k : report[j] # <<>>
        /\ report[k][1] # "test"
        /\ ~Contains(bench.outputs, report[k][1])
        /\ report[k][2] = p
        /\ report[k][3] = "*" }

TimesSeen(p, w) == Cardinality({ k \in CountedLines(p) : report[k][1] = w })
FirstSeen(p, w) == CHOOSE k \in CountedLines(p) :
                       report[k][1] = w /\ \A j \in CountedLines(p) : report[j][1] = w => k <= j

\* list holds exactly the wires counted for polarity p, each once, by
\* falling count, wires of equal count in the order they were first seen
RankedAsClaimed(list, p) ==
    /\ Range(list) = { report[k][1] : k \in CountedLines(p) }
    /\ \A i, j \in 1..Len(list) : i < j =>
          /\ list[i] # list[j]
          /\ TimesSeen(p, list[i]) >= TimesSeen(p, list[j])
          /\ TimesSeen(p, list[i]) = TimesSeen(p, list[j])
                => FirstSeen(p, list[i]) < FirstSeen(p, list[j])

\* C4: each list of the ranking holds exactly the wires that are no primary
\* output and have an undetected fault line of its polarity, each once, by
\* falling count and first-seen order among equals; a report naming only
\* primary outputs gives two empty lists.
C4_RankingIsExact ==
    pc = "ranked" =>
        /\ RankedAsClaimed(fault.atZeroFaults, "/0:")
        /\ RankedAsClaimed(fault.atOneFaults, "/1:")

----------------------------------------------------------------------------
(* VerilogModule.from_bench *)

\* s.replace('gat', ''), for the names of the model
StripGat(s) ==
    CASE s = "N0gat" -> "N0"
      [] s = "N1gat" -> "N1"
      [] s = "N2gat" -> "N2"
      [] s = "N3gat" -> "N3"
      [] s = "N4gat" -> "N4"
      [] s = "N5gat" -> "N5"
      [] OTHER -> s

StripAll(names) == [k \in 1..Len(names) |-> StripGat(names[k])]

\* lines 318-327
from_bench(b) ==
    [inputs  |-> (IF b.includes_dff THEN <<"VDD", "CK">> ELSE <<>>) \o StripAll(b.inputs),
     outputs |-> StripAll(b.outputs),
     wires   |-> StripAll(b.signals),
     ops     |-> SelectSeq(b.ops, LAMBDA op : op.operation # 6)]

----------------------------------------------------------------------------
(* Parsing a netlist and building its Verilog module, lines 452 and 478.   *)

\* most assignment lines of a netlist text
MaxOps == 3

NodeName(k) == "N" \o ToString(k) \o "gat"

\* the texts: INPUT(N0gat), then a chain of n gates of one operand each,
\* N<k>gat = KIND(N<k-1>gat), any of them a DFF, and OUTPUT(N<n>gat)
ParseTexts ==
    { [inputs  |-> <<NodeName(0)>>,
       outputs |-> IF Len(kinds) = 0 THEN <<>> ELSE <<NodeName(Len(kinds))>>,
       op_full_match |-> [k \in 1..Len(kinds) |->
                             <<NodeName(k), kinds[k], <<NodeName(k - 1)>> >>]] :
      kinds \in SeqsUpTo({"DFF", "NOT", "BUF", "not"}, MaxOps) }

InitParse ==
    /\ text \in ParseTexts
    /\ bench = NoBench
    /\ bench0 = NoBench
    /\ testbench = NoBench
    /\ fault = <<>>
    /\ hammings = <<>>
    /\ sweep = NoSweep
    /\ files = {}
    /\ vmod = <<>>
    /\ report = <<>>
    /\ pc = "from_file"
    /\ call = NoCall
    /\ pre = NoBench
    /\ last = NoLast
    /\ stderr = <<>>
    /\ raised = "none"

\* line 452
FromFile ==
    /\ pc = "from_file"
    /\ LET r == from_file(text.inputs, text.outputs, text.op_full_match) IN
       /\ raised' = r.raised
       /\ bench' = IF r.raised = "none" THEN r.bench ELSE bench
       /\ pc' = IF r.raised = "none" THEN "from_bench" ELSE "raised"
    /\ UNCHANGED <<bench0, testbench, fault, hammings, sweep, files, text, vmod, report,
                   call, pre, last, stderr>>

\* line 478
FromBench ==
    /\ pc = "from_bench"
    /\ vmod' = from_bench(bench)
    /\ pc' = "write_to_file"
    /\ UNCHANGED <<bench, bench0, testbench, fault, hammings, sweep, files, text, report,
                   call, pre, last, stderr, raised>>

NextParse == FromFile \/ FromBench

SpecParse == InitParse /\ [][NextParse]_vars

HasDFF(ops) == \E k \in 1..Len(ops) : ops[k].operation = 5

\* C5: once the text is parsed, includes_dff is true exactly when some
\* parsed operation is a DFF, wherever it stands; and the module's input
\* ports begin with VDD, CK exactly when some operation is a DFF.
C5_SequentialFlagIffSomeDFF ==
    /\ pc \in {"from_bench", "write_to_file"} => (bench.includes_dff <=> HasDFF(bench.ops))
    /\ pc = "write_to_file" =>
          (HasDFF(bench.ops) <=>
              Len(vmod.inputs) >= 2 /\ SubSeq(vmod.inputs, 1, 2) = <<"VDD", "CK">>)

----------------------------------------------------------------------------
(* get_hamming_distance, test_hamming, get_best_hamming *)

\* the test vectors with a wrong key of one test_hamming run (the source
\* writes 2498 of them, line 388)
CipherVectors == 2

Abs(x) == IF x < 0 THEN -x ELSE x

\* lines 373-375: little_sum for one cipher output
RECURSIVE LittleSum(_, _, _)
LittleSum(correct_output, cipher_output, k) ==
    IF k > Len(correct_output) \/ k > Len(cipher_output) THEN 0
    ELSE Abs(Bit(correct_output[k]) - Bit(cipher_output[k]))
         + LittleSum(correct_output, cipher_output, k + 1)

\* lines 371-377: the quotient big_sum / (len(correct_output) * len(cipher_outputs)),
\* kept as numerator and denominator
RECURSIVE BigSum(_, _)
BigSum(correct_output, cipher_outputs) ==
    IF cipher_outputs = <<>> THEN 0
    ELSE LittleSum(correct_output, Head(cipher_outputs), 1)
         + BigSum(correct_output, Tail(cipher_outputs))

get_hamming_distance(correct_output, cipher_outputs) ==
    [num |-> BigSum(correct_output, cipher_outputs),
     den |-> Len(correct_output) * Len(cipher_outputs)]

\* line 425: abs(hammingResult - 0.5), in units of 1 / (2 * den)
HalfDeviation(hammingResult) == Abs(2 * hammingResult.num - hammingResult.den)

\* test_hamming, lines 380-411, with fs the files present and responses the
\* output strings the regular expression finds in the result log.
\* randrange(0, 2 ** k - 1) raises ValueError for k = 0 (lines 381, 389);
\* pop(0) raises IndexError on an empty list (line 409) and the division
\* raises ZeroDivisionError when no cipher output is left (line 377).
test_hamming(fs, input_bits, correctKey, responses) ==
    IF input_bits = 0
    THEN [files |-> fs, raised |-> "ValueError", result |-> [num |-> 0, den |-> 1]]
    ELSE IF Len(correctKey) = 0
    THEN [files |-> fs \cup {"testbench"}, raised |-> "ValueError",
          result |-> [num |-> 0, den |-> 1]]
    ELSE LET fs1 == fs \cup {"testbench", "fakefaults", "resultlog"} IN
         IF responses = <<>>
         THEN [files |-> fs1, raised |-> "IndexError", result |-> [num |-> 0, den |-> 1]]
         ELSE IF Len(responses) = 1
         THEN [files |-> fs1, raised |-> "ZeroDivisionError",
               result |-> [num |-> 0, den |-> 1]]
         ELSE [files |-> fs1, raised |-> "none",
               result |-> get_hamming_distance(Head(responses), Tail(responses))]

\* mutant of SortedByValueAsc: an item goes before the sorted items of equal value
SortedByValueAscTiesFirst(items, done) ==
    LET RECURSIVE go(_, _)
        go(its, dn) ==
            IF its = <<>> THEN dn
            ELSE LET item == Head(its)
                     p == Cardinality({ k \in 1..Len(dn) : dn[k][2] < item[2] })
                 IN  go(Tail(its), ListInsert(dn, p, item))
    IN  go(items, done)

\* line 428: sorted(items, key=value): stable, least value first
RECURSIVE SortedByValueAsc(_, _)
SortedByValueAsc(items, done) ==
    IF items = <<>> THEN done
    ELSE LET item == Head(items)
             p == Cardinality({ k \in 1..Len(done) : done[k][2] <= item[2] })
         IN  SortedByValueAsc(Tail(items), ListInsert(done, p, item))

----------------------------------------------------------------------------
(* The main program from get_best_hamming on, lines 458-465, for a ranked    *)
(* netlist.                                                                  *)

\* netlists of three inputs and of one, each with fault reports of it
SweepNetlists ==
    { [inputs |-> <<"I0", "I1", "I2">>, outputs |-> <<"O">>,
       ops |-> << <<"G0", "AND", <<"I0", "I1">> >>,
                  <<"O", "OR", <<"G0", "I2">> >> >>,
       reports |-> { << <<"I0->G0", "/0:", "*">>, <<"G0->O", "/0:", "*">>,
                        <<"G0->O", "/0:", "*">>, <<"I2->O", "/1:", "*">>,
                        <<"I0", "/1:", "*">> >>,
                     << <<"G0->O", "/0:", "*">>, <<"G0->O", "/1:", "*">>,
                        <<"I0", "/0:", "*">>, <<"I0", "/1:", "*">> >>,
                     << <<"I0", "/0:", "*">>, <<"I0", "/1:", "*">>,
                        <<"G0", "/1:", "*">>, <<"O", "/0:", "*">> >>,
                     << <<"O", "/0:", "*">>, <<"O", "/1:", "*">> >> }],
      [inputs |-> <<"I0">>, outputs |-> <<"O">>,
       ops |-> << <<"O", "NOT", <<"I0">> >> >>,
       reports |-> { << <<"I0", "/0:", "*">>, <<"I0", "/1:", "*">> >> }] }

InitSweep ==
    /\ \E t \in SweepNetlists : \E rep \in t.reports :
         /\ bench = from_file(t.inputs, t.outputs, t.ops).bench
         /\ report = rep
         /\ fault = get_faults(bench, rep)
    /\ bench0 = bench
    /\ testbench = NoBench
    /\ hammings = <<>>
    /\ sweep = NoSweep
    /\ files = {}
    /\ text = <<>>
    /\ vmod = <<>>
    /\ pc = "get_best_hamming"
    /\ call = NoCall
    /\ pre = bench
    /\ last = NoLast
    /\ stderr = <<>>
    /\ raised = "none"

\* line 417: the range of the for loop, floor(len(inputs) / 2) first
GetBestHamming ==
    /\ pc = "get_best_hamming"
    /\ sweep' = [sweep EXCEPT !.next = Len(bench.inputs) \div 2]
    /\ pc' = "for"
    /\ UNCHANGED <<bench, bench0, testbench, fault, hammings, files, text, vmod, report,
                   call, pre, last, stderr, raised>>

\* lines 417-418: the next key size, and the deep copy for it
SweepCopy ==
    /\ pc = "for"
    /\ sweep.next < Len(bench.inputs)
    /\ sweep' = [sweep EXCEPT !.num_keybits = sweep.next, !.next = @ + 1]
    /\ testbench' = bench
    /\ pc' = "sweep_pass0"
    /\ UNCHANGED <<bench, bench0, fault, hammings, files, text, vmod, report,
                   call, pre, last, stderr, raised>>

\* lines 419-420: the two passes on the copy
SweepInsertCall ==
    /\ pc \in {"sweep_pass0", "sweep_pass1"}
    /\ IF pc = "sweep_pass0"
       THEN Enter("testbench", testbench, fault.atZeroFaults, sweep.num_keybits, 0,
                  "sweep_pass1")
       ELSE Enter("testbench", testbench, fault.atOneFaults, sweep.num_keybits, 1,
                  "write_to_file")
    /\ UNCHANGED <<bench, bench0, testbench, fault, hammings, sweep, files, text, vmod,
                   report, raised>>

\* lines 421-423: the copy is written to the scratch netlist (keys, which
\* nothing reads, is left out)
SweepWrite ==
    /\ pc = "write_to_file"
    /\ sweep' = [sweep EXCEPT !.out_bench = "tmp_bench.bench"]
    /\ files' = files \cup {"tmp_bench.bench"}
    /\ pc' = "test_hamming"
    /\ UNCHANGED <<bench, bench0, testbench, fault, hammings, text, vmod, report,
                   call, pre, last, stderr, raised>>

\* what the result log of one run can hold: nothing, or the response to the
\* correct key followed by the responses to the wrong keys, each the bits of
\* the one output
ResultLogs == { <<>> } \cup [1..(1 + CipherVectors) -> { <<"0">>, <<"1">> }]

\* lines 424-425
TestHamming ==
    /\ pc = "test_hamming"
    /\ \E responses \in ResultLogs :
         LET r == test_hamming(files, Len(testbench.inputs) - Len(testbench.key),
                               testbench.key, responses) IN
         /\ files' = r.files
         /\ raised' = r.raised
         /\ hammings' = IF r.raised = "none"
                        THEN DictSet(hammings, sweep.num_keybits, HalfDeviation(r.result))
                        ELSE hammings
         /\ pc' = IF r.raised = "none" THEN "for" ELSE "raised"
    /\ UNCHANGED <<bench, bench0, testbench, fault, sweep, text, vmod, report,
                   call, pre, last, stderr>>

\* lines 427-430: after the loop; out_bench is unbound if the loop never ran
SweepEnd ==
    /\ pc = "for"
    /\ sweep.next >= Len(bench.inputs)
    /\ IF sweep.out_bench = "unbound"
       THEN /\ raised' = "UnboundLocalError"
            /\ pc' = "raised"
            /\ UNCHANGED <<files, sweep>>
       ELSE /\ files' = files \ {sweep.out_bench}
            /\ sweep' = [sweep EXCEPT
                           !.sorted_hammings = DictKeys(SortedByValueAsc(hammings, <<>>)),
                           !.returned = TRUE]
            /\ pc' = "pass0"
            /\ UNCHANGED raised
    /\ UNCHANGED <<bench, bench0, testbench, fault, hammings, text, vmod, report,
                   call, pre, last, stderr>>

\* lines 464-465: the two passes on bench with the best key size
MainInsertCall ==
    /\ pc \in {"pass0", "pass1"}
    /\ IF pc = "pass0"
       THEN Enter("bench", bench, fault.atZeroFaults, sweep.sorted_hammings[1], 0, "pass1")
       ELSE Enter("bench", bench, fault.atOneFaults, sweep.sorted_hammings[1], 1, "done")
    /\ UNCHANGED <<bench, bench0, testbench, fault, hammings, sweep, files, text, vmod,
                   report, raised>>

NextSweep ==
    \/ GetBestHamming \/ SweepCopy \/ SweepInsertCall \/ InsertLoop \/ InsertReturn
    \/ SweepWrite \/ TestHamming \/ SweepEnd \/ MainInsertCall

SpecSweep == InitSweep /\ [][NextSweep]_vars

----------------------------------------------------------------------------
(* Properties of the sweep *)

SweptSizes == { hammings[k][1] : k \in 1..Len(hammings) }

\* best has the least recorded deviation, and is the smallest size that has it
IsBest(best) ==
    /\ best \in SweptSizes
    /\ \A s \in SweptSizes :
         \/ DictVal(hammings, best) < DictVal(hammings, s)
         \/ DictVal(hammings, best) = DictVal(hammings, s) /\ best <= s

\* every size is inserted into a copy of the unlocked netlist that leaves the
\* unlocked netlist as it was, stuck-at-0 candidates before stuck-at-1 ones
OwnCopyPassZeroFirst ==
    /\ ~sweep.returned => bench = bench0
    /\ pc = "sweep_pass0" => testbench = bench0
    /\ (pc = "insert_key_gates" /\ call.obj = "testbench") =>
         IF call.stuck_at = 0
         THEN pre = bench0
         ELSE Len(pre.key) = sweep.num_keybits /\ call.num_keybits = sweep.num_keybits

C7_ScratchFilesRemoved ==
    /\ files \cap {"faults", "hope.warning", "testbench", "fakefaults", "resultlog"} = {}
    /\ (sweep.returned \/ pc = "raised") => "tmp_bench.bench" \notin files

====
